---- MODULE Spec2Model ----
(***************************************************************************)
(* Wave Function Collapse core of the sketch-to-tilemap application:       *)
(* ImageLearner (patterns, weights, adjacencies) and ConstraintSolver      *)
(* (observe / propagate / least-entropy selection with restarts).          *)
(*                                                                         *)
(* Conventions.  Tile matrices (images, patterns) are sequences of rows;   *)
(* the code's 0-based position (y, x) is element [y+1][x+1].  The pattern  *)
(* table and the weights are sequences: the code's pattern index i is      *)
(* element i+1.  A Bitmask is the set of the 0-based indices of its set    *)
(* bits.  adjacencies[i+1][k+1] is the Bitmask adjacencies[i][k].          *)
(* Bitmask.AND is \cap, combineWith is \cup, EQUALS is =, isEmpty is = {}; *)
(* the propagation Queue is a sequence (enqueue = Append, dequeue = Head). *)
(* Entropies are computed in millionths from a table of natural logs.     *)
(***************************************************************************)
EXTENDS Integers, Sequences, FiniteSets, TLC

VARIABLES
    images,        \* learn(): the images argument
    patternSize,   \* learn(): the N argument
    patterns,      \* ImageLearner.patterns
    weights,       \* ImageLearner.weights
    adjacencies,   \* ImageLearner.adjacencies
    setTiles,      \* solve(): the setTiles argument, <<x, y, mask>> triples
    width,         \* solve(): width
    height,        \* solve(): height
    maxAttempts,   \* solve(): maxAttempts
    waveMatrix,    \* ConstraintSolver.waveMatrix, a function on <<y, x>>
    numAttempts,   \* solve(): numAttempts
    yPos,          \* solve(): y
    xPos,          \* solve(): x
    pc,            \* position in learn() / solve()
    result,        \* what solve() returned or threw
    numObserved,   \* observations performed in the current attempt
    waveObjects,   \* for each cell, whose Bitmask object this.waveMatrix[y][x] is
    randomLog,     \* the values Math.random() gave, kept when the run is logged
    cellQueue,     \* propagate(): the queue of cells, while a call runs stepwise
    startWave,     \* the wave matrix at the start of the propagate call
    displayList,      \* sketchpad.js: displayList, strokes as [id, normalized]
    redoDisplayList,  \* sketchpad.js: redoDisplayList
    mouseActive,      \* sketchpad.js: mouseObject.mouse.active
    numStrokes,       \* LineDisplayble objects created so far
    handler,          \* the sketchpad handler that ran last
    dispatched        \* the events that handler dispatched, in order

vars == <<images, patternSize, patterns, weights, adjacencies, setTiles, width,
          height, maxAttempts, waveMatrix, numAttempts, yPos, xPos, pc, result,
          numObserved,
          waveObjects, randomLog, cellQueue, startWave,
          displayList, redoDisplayList, mouseActive, numStrokes, handler, dispatched>>

learnVars == <<patterns, weights, adjacencies>>
inputVars == <<images, patternSize, setTiles, width, height, maxAttempts>>
solveVars == <<waveMatrix, numAttempts, yPos, xPos, result, numObserved, waveObjects>>
propVars == <<cellQueue, startWave>>
logVars == <<randomLog>>
sketchVars == <<displayList, redoDisplayList, mouseActive, numStrokes, handler, dispatched>>

-----------------------------------------------------------------------------
(* Bounds of the model. *)

MaxImgCells == 9
MaxN == 3
MaxWidth == 5
MaxHeight == 5
MaxPropCells == 6
MaxSeededCells == 3
MaxSeededAttempts == 2
MaxRunCells == 4
MaxRunAttempts == 2
MaxStrokes == 3

Tiles == {0, 1}

-----------------------------------------------------------------------------
(* Directions and bit sets. *)

\* DIRECTIONS[k+1] is the code's DIRECTIONS[k]: up, down, left, right as [dy, dx].
DIRECTIONS == << <<-1, 0>>, <<1, 0>>, <<0, -1>>, <<0, 1>> >>

UP == 0
DOWN == 1
LEFT == 2
RIGHT == 3

\* Bitmask.toArray(): the set bits in ascending order.
RECURSIVE toArray(_)
toArray(mask) ==
    IF mask = {} THEN << >>
    ELSE LET lo == CHOOSE i \in mask : \A j \in mask : i <= j
         IN  <<lo>> \o toArray(mask \ {lo})

-----------------------------------------------------------------------------
(* ImageLearner *)

\* Mutant of getPattern: the window is read transposed.
getPatternTransposed(image, N, y, x) ==
    [ny \in 1..N |-> [nx \in 1..N |-> image[y + nx][x + ny]]]

getPattern(image, N, y, x) ==
    [ny \in 1..N |-> [nx \in 1..N |-> image[y + ny][x + nx]]]

\* Array.prototype.toString() of a matrix: the row-major list of its tile ids.
RECURSIVE toString(_)
toString(p) ==
    IF p = << >> THEN << >> ELSE Head(p) \o toString(Tail(p))

\* Map.set(key, value)
MapSet(map, key, value) ==
    [k \in (DOMAIN map) \cup {key} |-> IF k = key THEN value ELSE map[k]]

\* Mutant of ProcessWindow: a repeated pattern does not increment its weight.
ProcessWindowNoCount(st, image, N, y, x) ==
    LET p == getPattern(image, N, y, x)
        p_str == toString(p)
    IN  IF p_str \in DOMAIN st.uniquePatterns
        THEN st
        ELSE [patterns |-> Append(st.patterns, p),
              weights |-> Append(st.weights, 1),
              uniquePatterns |-> MapSet(st.uniquePatterns, p_str, Len(st.patterns))]

\* Mutant of ProcessWindow: the map is keyed by the array itself, which a Map
\* compares by reference, so no window is ever found in it.
ProcessWindowAlwaysPush(st, image, N, y, x) ==
    LET p == getPattern(image, N, y, x)
    IN  [patterns |-> Append(st.patterns, p),
         weights |-> Append(st.weights, 1),
         uniquePatterns |-> st.uniquePatterns]

\* The body of the scan loops for the window anchored at (y, x).
ProcessWindow(st, image, N, y, x) ==
    LET p == getPattern(image, N, y, x)
        p_str == toString(p)
    IN  IF p_str \in DOMAIN st.uniquePatterns
        THEN LET i == st.uniquePatterns[p_str]
             IN  [st EXCEPT !.weights[i + 1] = @ + 1]
        ELSE [patterns |-> Append(st.patterns, p),
              weights |-> Append(st.weights, 1),
              uniquePatterns |-> MapSet(st.uniquePatterns, p_str, Len(st.patterns))]

\* The y and x loops over one image, as one row-major index n.  (The test on
\* next only makes TLC evaluate one iteration before it starts the following one.)
RECURSIVE ScanImage(_, _, _, _)
ScanImage(st, image, N, n) ==
    LET ny == Len(image) - N + 1
        nx == Len(image[1]) - N + 1
        next == ProcessWindow(st, image, N, n \div nx, n % nx)
    IN  IF ny <= 0 \/ nx <= 0 \/ n >= ny * nx THEN st
        ELSE IF Len(next.patterns) > 0 THEN ScanImage(next, image, N, n + 1)
        ELSE next

RECURSIVE ScanImages(_, _, _, _)
ScanImages(st, imgs, N, m) ==
    LET next == ScanImage(st, imgs[m], N, 0)
    IN  IF m > Len(imgs) THEN st
        ELSE IF Len(next.patterns) >= 0 THEN ScanImages(next, imgs, N, m + 1)
        ELSE next

getPatternsAndWeights(imgs, N) ==
    ScanImages([patterns |-> << >>, weights |-> << >>, uniquePatterns |-> << >>],
               imgs, N, 1)

start(d) == CASE d = -1 -> 1 [] d = 1 -> 0 [] d = 0 -> 0
end(d) == CASE d = -1 -> 0 [] d = 1 -> -1 [] d = 0 -> 0

\* Mutant of isAdjacent: the offset is applied to p1 instead of p2.
isAdjacentOffsetOnFirst(p1, p2, dir) ==
    LET dy == dir[1]
        dx == dir[2]
        startY == start(dy)
        startX == start(dx)
        endY == Len(p1) + end(dy)
        endX == Len(p1[1]) + end(dx)
    IN  \A y \in startY..(endY - 1) : \A x \in startX..(endX - 1) :
            p2[y + 1][x + 1] = p1[y + dy + 1][x + dx + 1]

isAdjacent(p1, p2, dir) ==
    LET dy == dir[1]
        dx == dir[2]
        startY == start(dy)
        startX == start(dx)
        endY == Len(p1) + end(dy)
        endX == Len(p1[1]) + end(dx)
    IN  \A y \in startY..(endY - 1) : \A x \in startX..(endX - 1) :
            p1[y + 1][x + 1] = p2[y + dy + 1][x + dx + 1]

\* Mutant of oppositeDirIndex: the same direction index is used for both bits.
oppositeDirIndexSame(k) == k

oppositeDirIndex(k) == CASE k = 0 -> 1 [] k = 1 -> 0 [] k = 2 -> 3 [] k = 3 -> 2

\* Mutant of PairVisited: j starts at i.
PairVisitedFromSelf(i, j) == j >= i

\* The pairs visited by the loops: j starts at i+1.
PairVisited(i, j) == j > i

\* Bit j of adjacencies[i][k] after the loops: set by setBit(j) on [i][k] when
\* the pair (i, j) is visited and adjacent in direction k, or by setBit(i) on
\* [j][o] when the pair (j, i) is visited and adjacent in the direction opposite to k.
AdjacencyBit(pats, i, j, k) ==
    \/ /\ PairVisited(i, j)
       /\ isAdjacent(pats[i + 1], pats[j + 1], DIRECTIONS[k + 1])
    \/ /\ PairVisited(j, i)
       /\ \E kk \in 0..3 :
            /\ oppositeDirIndex(kk) = k
            /\ isAdjacent(pats[j + 1], pats[i + 1], DIRECTIONS[kk + 1])

getAdjacencies(pats) ==
    [i1 \in 1..Len(pats) |->
        [k1 \in 1..4 |->
            {j \in 0..(Len(pats) - 1) : AdjacencyBit(pats, i1 - 1, j, k1 - 1)}]]

learn(imgs, N) ==
    LET pw == getPatternsAndWeights(imgs, N)
    IN  [patterns |-> pw.patterns,
         weights |-> pw.weights,
         adjacencies |-> getAdjacencies(pw.patterns)]

-----------------------------------------------------------------------------
(* ConstraintSolver *)

DrawsPerUnit == 2

initializeWaveMatrix(numPatterns, w, h) ==
    [cell \in (0..(h - 1)) \X (0..(w - 1)) |-> 0..(numPatterns - 1)]

\* Bitmask.createCopy(allPatternsPossible): a clone, an object of the wave alone.
createCopyObject == "wave"

\* Bitmask.AND(a, b): a new mask, an object of the wave alone once stored.
ANDObject == "wave"

\* The objects of the cells after initializeWaveMatrix().
initialWaveObjects(w, h) == [cell \in (0..(h - 1)) \X (0..(w - 1)) |-> createCopyObject]

\* The objects of the cells after propagate() turned wave `before` into `after`:
\* a narrowed cell holds the result of Bitmask.AND, the others what they held.
propagatedWaveObjects(objects, before, after) ==
    [cell \in DOMAIN objects |->
        IF after[cell] # before[cell] THEN ANDObject ELSE objects[cell]]

RECURSIVE SumTo(_, _)
SumTo(seq, n) == IF n = 0 THEN 0 ELSE seq[n] + SumTo(seq, n - 1)

possiblePatternWeights(mask, wts) ==
    LET possiblePatterns == toArray(mask)
    IN  [i \in 1..Len(possiblePatterns) |-> wts[possiblePatterns[i] + 1]]

totalWeight(mask, wts) ==
    LET ws == possiblePatternWeights(mask, wts) IN SumTo(ws, Len(ws))

\* Math.random() * totalWeight lies in [0, totalWeight); the draw d stands for
\* the value d / DrawsPerUnit.
RandomDraws(total) ==
    IF total = 0 THEN {0} ELSE 0..(DrawsPerUnit * total - 1)

\* Mutant of CursorReached: the test is cursor > random.
CursorReachedStrictly(mask, wts, draw) ==
    LET ws == possiblePatternWeights(mask, wts)
    IN  {i \in 1..Len(ws) : DrawsPerUnit * SumTo(ws, i) > draw}

\* The loop of observe(): the positions i (1-based) with cursor >= random.
CursorReached(mask, wts, draw) ==
    LET ws == possiblePatternWeights(mask, wts)
    IN  {i \in 1..Len(ws) : DrawsPerUnit * SumTo(ws, i) >= draw}

\* Mutant of observe: setBit(i) in place of setBit(possiblePatterns[i]).
observeSetsIndex(wave, y, x, wts, draw) ==
    LET reached == CursorReached(wave[<<y, x>>], wts, draw)
    IN  IF reached = {} THEN [thrown |-> TRUE, wave |-> wave]
        ELSE LET i == CHOOSE i \in reached : \A j \in reached : i <= j
             IN  [thrown |-> FALSE, wave |-> [wave EXCEPT ![<<y, x>>] = {i - 1}]]

\* observe(): the wave after the call; thrown when no pattern is chosen.
observe(wave, y, x, wts, draw) ==
    LET possiblePatterns == toArray(wave[<<y, x>>])
        reached == CursorReached(wave[<<y, x>>], wts, draw)
    IN  IF reached = {} THEN [thrown |-> TRUE, wave |-> wave]
        ELSE LET i == CHOOSE i \in reached : \A j \in reached : i <= j
             IN  [thrown |-> FALSE,
                  wave |-> [wave EXCEPT ![<<y, x>>] = {possiblePatterns[i]}]]

\* combineWith over the possible patterns of cell1, for direction index k.
PossibleAdjacentPatterns(cell1Patterns, k, adj) ==
    UNION {adj[cell1Patterns[n] + 1][k + 1] : n \in 1..Len(cell1Patterns)}

\* Mutant of Neighbour: the direction is not reversed.
NeighbourNotReversed(y1, x1, k) ==
    <<y1 + DIRECTIONS[k + 1][1], x1 + DIRECTIONS[k + 1][2]>>

\* The cell that direction index k of cell <<y1, x1>> constrains.
Neighbour(y1, x1, k) ==
    LET dir == DIRECTIONS[k + 1]
        dy == -dir[1]
        dx == -dir[2]
    IN  <<y1 + dy, x1 + dx>>

\* Mutant of PropagateDirs: isEmpty() is not tested, an empty mask is stored
\* like any other change.
RECURSIVE PropagateDirsNoEmptyTest(_, _, _, _, _, _)
PropagateDirsNoEmptyTest(wave, queue, cell1, cell1Patterns, k, adj) ==
    IF k >= Len(DIRECTIONS)
    THEN [contradictionCreated |-> FALSE, wave |-> wave, queue |-> queue]
    ELSE LET cell2 == Neighbour(cell1[1], cell1[2], k)
         IN  IF cell2 \notin DOMAIN wave
             THEN PropagateDirsNoEmptyTest(wave, queue, cell1, cell1Patterns, k + 1, adj)
             ELSE LET new == wave[cell2] \cap PossibleAdjacentPatterns(cell1Patterns, k, adj)
                  IN  IF new # wave[cell2]
                      THEN PropagateDirsNoEmptyTest([wave EXCEPT ![cell2] = new],
                                                    Append(queue, cell2), cell1,
                                                    cell1Patterns, k + 1, adj)
                      ELSE PropagateDirsNoEmptyTest(wave, queue, cell1, cell1Patterns,
                                                    k + 1, adj)

\* The for loop over DIRECTIONS for one dequeued cell, from direction index k on.
RECURSIVE PropagateDirs(_, _, _, _, _, _)
PropagateDirs(wave, queue, cell1, cell1Patterns, k, adj) ==
    IF k >= Len(DIRECTIONS)
    THEN [contradictionCreated |-> FALSE, wave |-> wave, queue |-> queue]
    ELSE LET cell2 == Neighbour(cell1[1], cell1[2], k)
         IN  IF cell2 \notin DOMAIN wave
             THEN PropagateDirs(wave, queue, cell1, cell1Patterns, k + 1, adj)
             ELSE LET new == wave[cell2] \cap PossibleAdjacentPatterns(cell1Patterns, k, adj)
                  IN  IF new = {}
                      THEN [contradictionCreated |-> TRUE, wave |-> wave, queue |-> queue]
                      ELSE IF new # wave[cell2]
                      THEN PropagateDirs([wave EXCEPT ![cell2] = new],
                                         Append(queue, cell2), cell1, cell1Patterns,
                                         k + 1, adj)
                      ELSE PropagateDirs(wave, queue, cell1, cell1Patterns, k + 1, adj)

\* The while loop of propagate() over the FIFO queue.
RECURSIVE PropagateQueue(_, _, _)
PropagateQueue(wave, queue, adj) ==
    IF queue = << >>
    THEN [contradictionCreated |-> FALSE, wave |-> wave, queue |-> queue]
    ELSE LET cell1 == Head(queue)
             r == PropagateDirs(wave, Tail(queue), cell1, toArray(wave[cell1]), 0, adj)
         IN  IF r.contradictionCreated THEN r
             ELSE PropagateQueue(r.wave, r.queue, adj)

\* Mutant of propagate: the narrowed neighbours of the observed cell are not
\* processed in their turn.
propagateObservedCellOnly(wave, y, x, adj) ==
    LET r == PropagateDirs(wave, << >>, <<y, x>>, toArray(wave[<<y, x>>]), 0, adj)
    IN  [r EXCEPT !.queue = << >>]

propagate(wave, y, x, adj) == PropagateQueue(wave, << <<y, x>> >>, adj)

\* The orders in which the four direction indices can be visited.
DirectionOrders ==
    {o \in [1..4 -> 0..3] : \A a \in 1..4 : \A b \in 1..4 : o[a] = o[b] => a = b}

\* The body of the for loop over DIRECTIONS for one dequeued cell, with the
\* direction indices visited in the given order, from position n of it on.
RECURSIVE PropagateDirsIn(_, _, _, _, _, _, _)
PropagateDirsIn(wave, q, cell1, cell1Patterns, order, n, adj) ==
    IF n > Len(order)
    THEN [contradictionCreated |-> FALSE, wave |-> wave, queue |-> q]
    ELSE LET cell2 == Neighbour(cell1[1], cell1[2], order[n])
         IN  IF cell2 \notin DOMAIN wave
             THEN PropagateDirsIn(wave, q, cell1, cell1Patterns, order, n + 1, adj)
             ELSE LET new == wave[cell2] \cap
                                PossibleAdjacentPatterns(cell1Patterns, order[n], adj)
                  IN  IF new = {}
                      THEN [contradictionCreated |-> TRUE, wave |-> wave, queue |-> q]
                      ELSE IF new # wave[cell2]
                      THEN PropagateDirsIn([wave EXCEPT ![cell2] = new],
                                           Append(q, cell2), cell1, cell1Patterns,
                                           order, n + 1, adj)
                      ELSE PropagateDirsIn(wave, q, cell1, cell1Patterns, order,
                                           n + 1, adj)

\* The sequence q without its element n.
RemoveAt(q, n) == SubSeq(q, 1, n - 1) \o SubSeq(q, n + 1, Len(q))

\* round(ln(n) * 10^6) for n = 1..40
LnMicro ==
    << 0, 693147, 1098612, 1386294, 1609438, 1791759, 1945910, 2079442, 2197225,
       2302585, 2397895, 2484907, 2564949, 2639057, 2708050, 2772589, 2833213,
       2890372, 2944439, 2995732, 3044522, 3091042, 3135494, 3178054, 3218876,
       3258097, 3295837, 3332205, 3367296, 3401197, 3433987, 3465736, 3496508,
       3526361, 3555348, 3583519, 3610918, 3637586, 3663562, 3688879 >>

Infinity == 2000000000
Thrown == -1

RECURSIVE SumWeightLogWeights(_, _)
SumWeightLogWeights(ws, n) ==
    IF n = 0 THEN 0 ELSE ws[n] * LnMicro[ws[n]] + SumWeightLogWeights(ws, n - 1)

\* Mutant of getShannonEntropy: the division by sumOfWeights is left out.
getShannonEntropyNoDivision(mask, wts) ==
    LET ws == possiblePatternWeights(mask, wts)
        sumOfWeights == SumTo(ws, Len(ws))
    IN  IF Len(ws) = 0 THEN Thrown
        ELSE IF Len(ws) = 1 THEN 0
        ELSE LnMicro[sumOfWeights] - SumWeightLogWeights(ws, Len(ws))

\* getShannonEntropy() in millionths; Thrown when the cell is empty.
getShannonEntropy(mask, wts) ==
    LET ws == possiblePatternWeights(mask, wts)
        sumOfWeights == SumTo(ws, Len(ws))
    IN  IF Len(ws) = 0 THEN Thrown
        ELSE IF Len(ws) = 1 THEN 0
        ELSE LnMicro[sumOfWeights] - (SumWeightLogWeights(ws, Len(ws)) \div sumOfWeights)

\* Mutant of ScanEntropy: the test entropy > 0 is left out.
RECURSIVE ScanEntropyNoPositiveTest(_, _, _, _, _, _)
ScanEntropyNoPositiveTest(wave, w, h, wts, n, acc) ==
    IF n >= w * h \/ acc.thrown THEN acc
    ELSE LET cell == <<n \div w, n % w>>
             entropy == getShannonEntropy(wave[cell], wts)
         IN  ScanEntropyNoPositiveTest(wave, w, h, wts, n + 1,
                 IF entropy = Thrown THEN [acc EXCEPT !.thrown = TRUE]
                 ELSE IF entropy < acc.leastEntropy
                 THEN [acc EXCEPT !.leastEntropy = entropy,
                                  !.leastEntropyCellPositions = <<cell>>]
                 ELSE IF entropy = acc.leastEntropy
                 THEN [acc EXCEPT !.leastEntropyCellPositions = Append(@, cell)]
                 ELSE acc)

\* The scan of getLeastEntropyUnsolvedCellPosition() from row-major cell n on.
RECURSIVE ScanEntropy(_, _, _, _, _, _)
ScanEntropy(wave, w, h, wts, n, acc) ==
    IF n >= w * h \/ acc.thrown THEN acc
    ELSE LET cell == <<n \div w, n % w>>
             entropy == getShannonEntropy(wave[cell], wts)
         IN  ScanEntropy(wave, w, h, wts, n + 1,
                 IF entropy = Thrown THEN [acc EXCEPT !.thrown = TRUE]
                 ELSE IF entropy < acc.leastEntropy /\ entropy > 0
                 THEN [acc EXCEPT !.leastEntropy = entropy,
                                  !.leastEntropyCellPositions = <<cell>>]
                 ELSE IF entropy = acc.leastEntropy
                 THEN [acc EXCEPT !.leastEntropyCellPositions = Append(@, cell)]
                 ELSE acc)

leastEntropyCells(wave, w, h, wts) ==
    ScanEntropy(wave, w, h, wts, 0,
        [leastEntropy |-> Infinity, leastEntropyCellPositions |-> << >>,
         thrown |-> FALSE])

-----------------------------------------------------------------------------
(* Inputs *)

S1Image == << <<0, 0>>, <<0, 0>> >>
S2Image == << <<0, 1, 0, 1>>, <<0, 1, 0, 1>>, <<0, 1, 0, 1>> >>
CheckerImage == << <<0, 1, 0, 1>>, <<1, 0, 1, 0>>, <<0, 1, 0, 1>>, <<1, 0, 1, 0>> >>
RampImage == << <<0, 1, 2>>, <<1, 2, 3>>, <<2, 3, 4>> >>
RowsImage == << <<0, 0>>, <<1, 1>>, <<2, 2>> >>
TinyImage == << <<0>> >>
BranchImage == << <<0, 1, 0, 2, 0, 1>>, <<0, 1, 0, 2, 0, 1>> >>
DeadEndImage == << <<0, 1, 0, 2, 3>>, <<0, 1, 0, 2, 3>> >>

ExampleImages ==
    {S1Image, S2Image, CheckerImage, RampImage, RowsImage, TinyImage, BranchImage}

\* <<images, N>> pairs the solver is run on.
SolveInputs ==
    {<<(<<image>>), 2>> :
        image \in {S1Image, S2Image, CheckerImage, RampImage, TinyImage, BranchImage,
                   DeadEndImage}}

\* All tile matrices of h rows and w columns over Tiles.
Matrices(h, w) == [1..h -> [1..w -> Tiles]]

\* Every image over Tiles with at most MaxImgCells tiles.
SmallImages ==
    UNION {Matrices(d[1], d[2]) :
             d \in {e \in (1..MaxImgCells) \X (1..MaxImgCells) :
                      e[1] * e[2] <= MaxImgCells}}

LearnInputs ==
    {<<image>> : image \in SmallImages \cup ExampleImages}
        \cup {<<a, b>> : a \in ExampleImages, b \in ExampleImages}

ThreeTileImage == << <<0, 1, 2>> >>

\* <<images, N>> pairs the stepwise propagation is run on.
PropagateInputs ==
    {<<(<<BranchImage>>), 2>>, <<(<<RampImage>>), 2>>, <<(<<CheckerImage>>), 2>>,
     <<(<<ThreeTileImage>>), 1>>}

\* <<images, N>> pairs the logged runs are made on.
SeededInputs ==
    {<<(<<image>>), 2>> : image \in {S2Image, TinyImage, DeadEndImage}}

\* S5: two horizontally adjacent cells preset to the same pattern.
PresetChoices == { << >>, << <<0, 0, {0}>>, <<1, 0, {0}>> >> }

\* maxAttempts of the demo scene, the smallest cap that lets the loop run, and a
\* cap below it.
DemoMaxAttempts == 10
AttemptChoices == {0, 1, DemoMaxAttempts}

-----------------------------------------------------------------------------
(* State machine *)

InitCommon ==
    /\ patterns = << >>
    /\ weights = << >>
    /\ adjacencies = << >>
    /\ waveMatrix = << >>
    /\ numAttempts = 0
    /\ yPos = 0
    /\ xPos = 0
    /\ pc = "learn"
    /\ result = "none"
    /\ numObserved = 0
    /\ waveObjects = << >>
    /\ cellQueue = << >>
    /\ startWave = << >>
    /\ displayList = << >>
    /\ redoDisplayList = << >>
    /\ mouseActive = FALSE
    /\ numStrokes = 0
    /\ handler = "none"
    /\ dispatched = << >>

Init ==
    /\ \E in \in SolveInputs :
          /\ images = in[1]
          /\ patternSize = in[2]
    /\ setTiles \in PresetChoices
    /\ width \in 0..MaxWidth
    /\ height \in 0..MaxHeight
    /\ maxAttempts \in AttemptChoices
    /\ randomLog = [kept |-> FALSE, values |-> << >>]
    /\ InitCommon

InitLearn ==
    /\ images \in LearnInputs
    /\ patternSize \in 0..MaxN
    /\ setTiles = << >>
    /\ width = 1
    /\ height = 1
    /\ maxAttempts = 1
    /\ randomLog = [kept |-> FALSE, values |-> << >>]
    /\ InitCommon

\* The log of random values after `values` were drawn.
Logged(values) ==
    IF randomLog.kept THEN [randomLog EXCEPT !.values = @ \o values] ELSE randomLog

\* Math.floor(Math.random() * n)
RandomIndex(n) == IF n = 0 THEN {0} ELSE 0..(n - 1)

\* learn(images, N)
Learn ==
    /\ pc = "learn"
    /\ LET model == learn(images, patternSize)
       IN  /\ patterns' = model.patterns
           /\ weights' = model.weights
           /\ adjacencies' = model.adjacencies
    /\ pc' = "solve"
    /\ UNCHANGED <<sketchVars, inputVars, propVars, logVars, solveVars>>

\* solve(): up to the while loop.
SolveStart ==
    /\ pc = "solve"
    /\ waveMatrix' = initializeWaveMatrix(Len(patterns), width, height)
    /\ waveObjects' = initialWaveObjects(width, height)
    /\ numAttempts' = 1
    /\ yPos' \in RandomIndex(height)
    /\ xPos' \in RandomIndex(width)
    /\ numObserved' = 0
    /\ pc' = "loop"
    /\ randomLog' = Logged(<<yPos', xPos'>>)
    /\ UNCHANGED <<sketchVars, inputVars, propVars, learnVars, result>>

\* Mutant of ReturnFalse: the loop written as while (numAttempts < maxAttempts).
ReturnFalseEarly ==
    /\ pc = "loop"
    /\ ~(numAttempts < maxAttempts)
    /\ result' = "false"
    /\ pc' = "done"
    /\ UNCHANGED <<sketchVars, inputVars, propVars, logVars, learnVars, waveMatrix, numAttempts, yPos, xPos,
                   numObserved, waveObjects>>

\* The while condition fails: "max attempts reached".
ReturnFalse ==
    /\ pc = "loop"
    /\ ~(numAttempts <= maxAttempts)
    /\ result' = "false"
    /\ pc' = "done"
    /\ UNCHANGED <<sketchVars, inputVars, propVars, logVars, learnVars, waveMatrix, numAttempts, yPos, xPos,
                   numObserved, waveObjects>>

\* Mutant of Observe: the pattern is taken from the possible ones in an order
\* that the random value does not determine.
ObserveAnyPattern ==
    /\ pc = "loop"
    /\ numAttempts <= maxAttempts
    /\ <<yPos, xPos>> \in DOMAIN waveMatrix
    /\ \E draw \in RandomDraws(totalWeight(waveMatrix[<<yPos, xPos>>], weights)) :
          \E i \in waveMatrix[<<yPos, xPos>>] :
              /\ waveMatrix' = [waveMatrix EXCEPT ![<<yPos, xPos>>] = {i}]
              /\ randomLog' = Logged(<<draw>>)
    /\ numObserved' = numObserved + 1
    /\ pc' = "propagate"
    /\ UNCHANGED <<sketchVars, inputVars, propVars, learnVars, numAttempts, yPos, xPos, result,
                   waveObjects>>

\* this.observe(y, x, weights) chooses a pattern.
Observe ==
    /\ pc = "loop"
    /\ numAttempts <= maxAttempts
    /\ <<yPos, xPos>> \in DOMAIN waveMatrix
    /\ \E draw \in RandomDraws(totalWeight(waveMatrix[<<yPos, xPos>>], weights)) :
          LET after == observe(waveMatrix, yPos, xPos, weights, draw)
          IN  /\ ~after.thrown
              /\ waveMatrix' = after.wave
              /\ randomLog' = Logged(<<draw>>)
    /\ numObserved' = numObserved + 1
    /\ pc' = "propagate"
    /\ UNCHANGED <<sketchVars, inputVars, propVars, learnVars, numAttempts, yPos, xPos, result,
                   waveObjects>>

\* this.observe(y, x, weights) throws "A pattern wasn't chosen within the for loop".
ObserveThrows ==
    /\ pc = "loop"
    /\ numAttempts <= maxAttempts
    /\ <<yPos, xPos>> \in DOMAIN waveMatrix
    /\ \E draw \in RandomDraws(totalWeight(waveMatrix[<<yPos, xPos>>], weights)) :
          /\ observe(waveMatrix, yPos, xPos, weights, draw).thrown
          /\ randomLog' = Logged(<<draw>>)
    /\ result' = "Error: pattern not chosen"
    /\ pc' = "done"
    /\ UNCHANGED <<sketchVars, inputVars, propVars, learnVars, waveMatrix, numAttempts, yPos, xPos,
                   numObserved, waveObjects>>

\* this.observe(y, x, weights) on a grid without cells: this.waveMatrix[y][x] is
\* undefined (or this.waveMatrix[y] is) and reading from it throws a TypeError.
ObserveNoCell ==
    /\ pc = "loop"
    /\ numAttempts <= maxAttempts
    /\ <<yPos, xPos>> \notin DOMAIN waveMatrix
    /\ result' = "TypeError"
    /\ pc' = "done"
    /\ UNCHANGED <<sketchVars, inputVars, propVars, logVars, learnVars, waveMatrix, numAttempts, yPos, xPos,
                   numObserved, waveObjects>>

\* propagate() returns true: reinitialize, draw a new cell, count the attempt.
PropagateContradiction ==
    /\ pc = "propagate"
    /\ propagate(waveMatrix, yPos, xPos, adjacencies).contradictionCreated
    /\ waveMatrix' = initializeWaveMatrix(Len(patterns), width, height)
    /\ waveObjects' = initialWaveObjects(width, height)
    /\ yPos' \in RandomIndex(height)
    /\ xPos' \in RandomIndex(width)
    /\ numAttempts' = numAttempts + 1
    /\ numObserved' = 0
    /\ pc' = "loop"
    /\ randomLog' = Logged(<<yPos', xPos'>>)
    /\ UNCHANGED <<sketchVars, inputVars, propVars, learnVars, result>>

\* Mutant of PropagateDone: combineWith is called on the adjacency mask, so the
\* masks of the patterns of every narrowed cell accumulate each other.
PropagateDoneCombinesIntoAdjacencies ==
    /\ pc = "propagate"
    /\ LET r == propagate(waveMatrix, yPos, xPos, adjacencies)
           narrowed == {cell \in DOMAIN waveMatrix : r.wave[cell] # waveMatrix[cell]}
       IN  /\ ~r.contradictionCreated
           /\ waveMatrix' = r.wave
           /\ waveObjects' = propagatedWaveObjects(waveObjects, waveMatrix, r.wave)
           /\ adjacencies' =
                 [i \in 1..Len(adjacencies) |->
                     [k \in 1..4 |->
                         adjacencies[i][k] \cup
                             UNION {adjacencies[j + 1][k] :
                                      j \in UNION {r.wave[cell] :
                                                      cell \in {c \in narrowed :
                                                                  (i - 1) \in r.wave[c]}}}]]
    /\ pc' = "select"
    /\ UNCHANGED <<sketchVars, inputVars, propVars, logVars, patterns, weights, numAttempts, yPos, xPos, result,
                   numObserved>>

\* propagate() returns false.
PropagateDone ==
    /\ pc = "propagate"
    /\ LET r == propagate(waveMatrix, yPos, xPos, adjacencies)
       IN  /\ ~r.contradictionCreated
           /\ waveMatrix' = r.wave
           /\ waveObjects' = propagatedWaveObjects(waveObjects, waveMatrix, r.wave)
    /\ pc' = "select"
    /\ UNCHANGED <<sketchVars, inputVars, propVars, logVars, learnVars, numAttempts, yPos, xPos, result, numObserved>>

\* getLeastEntropyUnsolvedCellPosition() returns a cell: the loop goes on.
SelectCell ==
    /\ pc = "select"
    /\ LET scan == leastEntropyCells(waveMatrix, width, height, weights)
           len == Len(scan.leastEntropyCellPositions)
       IN  /\ ~scan.thrown
           /\ \E n \in 1..len :
                /\ yPos' = scan.leastEntropyCellPositions[n][1]
                /\ xPos' = scan.leastEntropyCellPositions[n][2]
                /\ randomLog' = Logged(<<n>>)
    /\ pc' = "loop"
    /\ UNCHANGED <<sketchVars, inputVars, propVars, learnVars, waveMatrix, numAttempts, result, numObserved,
                   waveObjects>>

\* getLeastEntropyUnsolvedCellPosition() returns [-1, -1], or getShannonEntropy() throws.
SelectEnd ==
    /\ pc = "select"
    /\ LET scan == leastEntropyCells(waveMatrix, width, height, weights)
       IN  IF scan.thrown
           THEN /\ result' = "Error: Contradiction found."
                /\ UNCHANGED <<yPos, xPos>>
           ELSE /\ Len(scan.leastEntropyCellPositions) = 0
                /\ yPos' = -1
                /\ xPos' = -1
                /\ result' = "true"
    /\ pc' = "done"
    /\ UNCHANGED <<sketchVars, inputVars, propVars, logVars, learnVars, waveMatrix, numAttempts, numObserved,
                   waveObjects>>

Next ==
    \/ Learn
    \/ SolveStart
    \/ ReturnFalse
    \/ Observe
    \/ ObserveThrows
    \/ ObserveNoCell
    \/ PropagateContradiction
    \/ PropagateDone
    \/ SelectCell
    \/ SelectEnd

Spec == Init /\ [][Next]_vars

\* propagate(): the queue is created with the observed cell.
PropagateBegin ==
    /\ pc = "propagate"
    /\ cellQueue' = << <<yPos, xPos>> >>
    /\ startWave' = waveMatrix
    /\ pc' = "propagating"
    /\ UNCHANGED <<sketchVars, inputVars, logVars, learnVars, solveVars>>

\* One iteration of the while loop of propagate(), taking any queued cell and
\* visiting the directions in any order, without a contradiction.
PropagateCell ==
    /\ pc = "propagating"
    /\ \E n \in 1..Len(cellQueue) : \E order \in DirectionOrders :
          LET r == PropagateDirsIn(waveMatrix, RemoveAt(cellQueue, n), cellQueue[n],
                                   toArray(waveMatrix[cellQueue[n]]), order, 1, adjacencies)
          IN  /\ ~r.contradictionCreated
              /\ waveMatrix' = r.wave
              /\ waveObjects' = propagatedWaveObjects(waveObjects, waveMatrix, r.wave)
              /\ cellQueue' = r.queue
    /\ UNCHANGED <<sketchVars, inputVars, logVars, learnVars, numAttempts, yPos, xPos, pc, result,
                   numObserved, startWave>>

\* One iteration of the while loop of propagate() that finds a contradiction:
\* propagate() returns true.
PropagateCellContradiction ==
    /\ pc = "propagating"
    /\ \E n \in 1..Len(cellQueue) : \E order \in DirectionOrders :
          PropagateDirsIn(waveMatrix, RemoveAt(cellQueue, n), cellQueue[n],
                          toArray(waveMatrix[cellQueue[n]]), order, 1,
                          adjacencies).contradictionCreated
    /\ pc' = "contradiction"
    /\ UNCHANGED <<sketchVars, inputVars, logVars, learnVars, solveVars, propVars>>

\* The queue is empty: propagate() returns false.
PropagateEnd ==
    /\ pc = "propagating"
    /\ cellQueue = << >>
    /\ pc' = "select"
    /\ UNCHANGED <<sketchVars, inputVars, logVars, learnVars, solveVars, propVars>>

InitPropagate ==
    /\ \E in \in PropagateInputs :
          /\ images = in[1]
          /\ patternSize = in[2]
    /\ setTiles = << >>
    /\ width \in 1..MaxPropCells
    /\ height \in 1..MaxPropCells
    /\ width * height <= MaxPropCells
    /\ maxAttempts = 1
    /\ randomLog = [kept |-> FALSE, values |-> << >>]
    /\ InitCommon

NextPropagate ==
    \/ Learn
    \/ SolveStart
    \/ Observe
    \/ PropagateBegin
    \/ PropagateCell
    \/ PropagateCellContradiction
    \/ PropagateEnd
    \/ SelectCell
    \/ SelectEnd

\* One attempt of solve() in which every propagate call processes its queue in
\* an arbitrary order.
SpecPropagate == InitPropagate /\ [][NextPropagate]_vars

\* Mutant of PropagateRestart: the attempt is not counted.
PropagateRestartUncounted ==
    /\ pc = "contradiction"
    /\ waveMatrix' = initializeWaveMatrix(Len(patterns), width, height)
    /\ waveObjects' = initialWaveObjects(width, height)
    /\ yPos' \in RandomIndex(height)
    /\ xPos' \in RandomIndex(width)
    /\ numObserved' = 0
    /\ cellQueue' = << >>
    /\ startWave' = << >>
    /\ pc' = "loop"
    /\ UNCHANGED <<sketchVars, inputVars, logVars, learnVars, result, numAttempts>>

\* propagate() returned true from inside its loop: its queue is gone, solve()
\* reinitializes the wave, draws a new cell and counts the attempt.
PropagateRestart ==
    /\ pc = "contradiction"
    /\ waveMatrix' = initializeWaveMatrix(Len(patterns), width, height)
    /\ waveObjects' = initialWaveObjects(width, height)
    /\ yPos' \in RandomIndex(height)
    /\ xPos' \in RandomIndex(width)
    /\ numAttempts' = numAttempts + 1
    /\ numObserved' = 0
    /\ cellQueue' = << >>
    /\ startWave' = << >>
    /\ pc' = "loop"
    /\ UNCHANGED <<sketchVars, inputVars, logVars, learnVars, result>>

\* <<images, N>> pairs the whole runs with stepwise propagation are made on: a
\* single-pattern model, a model with dead ends, one without, and single tiles.
TerminationInputs ==
    {<<(<<S1Image>>), 2>>, <<(<<DeadEndImage>>), 2>>, <<(<<RampImage>>), 2>>,
     <<(<<ThreeTileImage>>), 1>>}

InitTerminates ==
    /\ \E in \in TerminationInputs :
          /\ images = in[1]
          /\ patternSize = in[2]
    /\ setTiles = << >>
    /\ width \in 1..MaxRunCells
    /\ height \in 1..MaxRunCells
    /\ width * height <= MaxRunCells
    /\ maxAttempts \in 0..MaxRunAttempts
    /\ randomLog = [kept |-> FALSE, values |-> << >>]
    /\ InitCommon

NextTerminates ==
    \/ Learn
    \/ SolveStart
    \/ ReturnFalse
    \/ Observe
    \/ PropagateBegin
    \/ PropagateCell
    \/ PropagateCellContradiction
    \/ PropagateRestart
    \/ PropagateEnd
    \/ SelectCell
    \/ SelectEnd

\* solve() with stepwise propagation. The code is one sequential call on one
\* thread: whenever a next statement exists it is executed.
SpecTerminates == InitTerminates /\ [][NextTerminates]_vars /\ WF_vars(NextTerminates)

InitSeeded ==
    /\ \E in \in SeededInputs :
          /\ images = in[1]
          /\ patternSize = in[2]
    /\ setTiles \in PresetChoices
    /\ width \in 0..MaxSeededCells
    /\ height \in {0, 1}
    /\ maxAttempts \in 0..MaxSeededAttempts
    /\ randomLog = [kept |-> TRUE, values |-> << >>]
    /\ InitCommon

\* solve() with every value of Math.random() logged.
SpecSeeded == InitSeeded /\ [][Next]_vars

NextLearn == Learn

SpecLearn == InitLearn /\ [][NextLearn]_vars

-----------------------------------------------------------------------------
(* Sketchpad *)

changeDraw == <<"drawing-changed">>
movedTool == <<"tool-moved">>
clearPhaser == <<"clearSketch">>

\* normalizeStrokes(): every stroke of displayList is marked normalized (the
\* new points come from modules outside this model).
normalizeStrokes(dl) == [n \in 1..Len(dl) |-> [dl[n] EXCEPT !.normalized = TRUE]]

\* Mutant of undoButtonOnclick: the popped stroke is not pushed on redoDisplayList.
undoButtonOnclickDropsStroke(dl, rl) ==
    IF dl = << >>
    THEN [displayList |-> dl, redoDisplayList |-> rl, dispatched |-> << >>]
    ELSE LET popped == SubSeq(dl, 1, Len(dl) - 1)
         IN  [displayList |-> popped,
              redoDisplayList |-> rl,
              dispatched |-> << <<"undoSketch", Len(popped)>>, changeDraw >>]

\* undoButton.onclick on the lists dl (displayList) and rl (redoDisplayList).
undoButtonOnclick(dl, rl) ==
    IF dl = << >>
    THEN [displayList |-> dl, redoDisplayList |-> rl, dispatched |-> << >>]
    ELSE LET toRedo == dl[Len(dl)]
             popped == SubSeq(dl, 1, Len(dl) - 1)
         IN  [displayList |-> popped,
              redoDisplayList |-> Append(rl, toRedo),
              dispatched |-> << <<"undoSketch", Len(popped)>>, changeDraw >>]

\* redoButton.onclick on the lists dl (displayList) and rl (redoDisplayList).
redoButtonOnclick(dl, rl) ==
    IF rl = << >>
    THEN [displayList |-> dl, redoDisplayList |-> rl, dispatched |-> << >>]
    ELSE LET toDisplay == rl[Len(rl)]
             pushed == Append(dl, toDisplay)
         IN  [displayList |-> pushed,
              redoDisplayList |-> SubSeq(rl, 1, Len(rl) - 1),
              dispatched |-> << <<"redoSketch", Len(pushed)>>, changeDraw >>]

wfcVars == <<inputVars, learnVars, solveVars, propVars, logVars, pc>>

\* The mousedown listener: a new stroke starts.
Mousedown ==
    /\ numStrokes < MaxStrokes
    /\ numStrokes' = numStrokes + 1
    /\ mouseActive' = TRUE
    /\ displayList' = Append(displayList, [id |-> numStrokes + 1, normalized |-> FALSE])
    /\ dispatched' = <<changeDraw, movedTool>>
    /\ handler' = "mousedown"
    /\ UNCHANGED <<redoDisplayList, wfcVars>>

\* The mouseup listener, with the normalize toggle checked or not.
Mouseup ==
    /\ \E checked \in BOOLEAN :
          IF checked
          THEN /\ displayList' = normalizeStrokes(displayList)
               /\ dispatched' = <<changeDraw, changeDraw, movedTool>>
          ELSE /\ displayList' = displayList
               /\ dispatched' = <<changeDraw, movedTool>>
    /\ mouseActive' = FALSE
    /\ handler' = "mouseup"
    /\ UNCHANGED <<redoDisplayList, numStrokes, wfcVars>>

\* clearButton.onclick
ClearClick ==
    /\ displayList' = << >>
    /\ redoDisplayList' = << >>
    /\ dispatched' = <<clearPhaser>>
    /\ handler' = "clear"
    /\ UNCHANGED <<mouseActive, numStrokes, wfcVars>>

\* undoButton.onclick
UndoClick ==
    /\ LET after == undoButtonOnclick(displayList, redoDisplayList)
       IN  /\ displayList' = after.displayList
           /\ redoDisplayList' = after.redoDisplayList
           /\ dispatched' = after.dispatched
    /\ handler' = "undo"
    /\ UNCHANGED <<mouseActive, numStrokes, wfcVars>>

\* redoButton.onclick
RedoClick ==
    /\ LET after == redoButtonOnclick(displayList, redoDisplayList)
       IN  /\ displayList' = after.displayList
           /\ redoDisplayList' = after.redoDisplayList
           /\ dispatched' = after.dispatched
    /\ handler' = "redo"
    /\ UNCHANGED <<mouseActive, numStrokes, wfcVars>>

\* The page as loaded: both lists empty; no model is learned on this page.
InitSketchpad ==
    /\ images = << >>
    /\ patternSize = 0
    /\ setTiles = << >>
    /\ width = 0
    /\ height = 0
    /\ maxAttempts = 0
    /\ randomLog = [kept |-> FALSE, values |-> << >>]
    /\ InitCommon

NextSketchpad ==
    \/ Mousedown
    \/ Mouseup
    \/ ClearClick
    \/ UndoClick
    \/ RedoClick

\* The sketchpad's handlers in any order.
SpecSketchpad == InitSketchpad /\ [][NextSketchpad]_vars

-----------------------------------------------------------------------------
(* Properties *)

Learned == pc # "learn"

NumPatterns == Len(patterns)

PatternIndices == 0..(NumPatterns - 1)

\* Bit j of adjacencies[i][d].
AdjBit(i, d, j) == j \in adjacencies[i + 1][d + 1]

\* opposite(d): up <-> down, left <-> right.
Opposite(d) ==
    CASE d = UP -> DOWN [] d = DOWN -> UP [] d = LEFT -> RIGHT [] d = RIGHT -> LEFT

\* The anchors (y, x) of the N x N windows of an image: 0 <= y <= H-N, 0 <= x <= W-N.
Anchors(image, N) == (0..(Len(image) - N)) \X (0..(Len(image[1]) - N))

\* The window of image anchored at (y, x) is elementwise equal to p.
WindowEquals(image, N, y, x, p) ==
    \A ny \in 0..(N - 1) : \A nx \in 0..(N - 1) :
        image[y + ny + 1][x + nx + 1] = p[ny + 1][nx + 1]

\* The windows <<m, y, x>> of all images that are equal to p.
Occurrences(imgs, N, p) ==
    {o \in (1..Len(imgs)) \X (0..MaxImgCells) \X (0..MaxImgCells) :
        /\ <<o[2], o[3]>> \in Anchors(imgs[o[1]], N)
        /\ WindowEquals(imgs[o[1]], N, o[2], o[3], p)}

RECURSIVE TotalWindows(_, _, _)
TotalWindows(imgs, N, m) ==
    IF m = 0 THEN 0
    ELSE Cardinality(Anchors(imgs[m], N)) + TotalWindows(imgs, N, m - 1)

\* Window a comes before window b in the scan: images in the order given, each
\* scanned row-major.
ScannedBefore(a, b) ==
    \/ a[1] < b[1]
    \/ a[1] = b[1] /\ a[2] < b[2]
    \/ a[1] = b[1] /\ a[2] = b[2] /\ a[3] < b[3]

\* C1: after learn, bit j of adjacencies[i][d] is set iff bit i of
\* adjacencies[j][opposite(d)] is set, for all patterns i, j and directions d.
C1_AdjacencySymmetry ==
    Learned =>
        \A i \in PatternIndices : \A j \in PatternIndices : \A d \in 0..3 :
            AdjBit(i, d, j) <=> AdjBit(j, Opposite(d), i)

\* A learned model with a pair adjacent in one direction and not in the opposite one.
C1_Witness ==
    /\ Learned
    /\ \E i \in PatternIndices : \E j \in PatternIndices : \E d \in 0..3 :
          /\ AdjBit(i, d, j)
          /\ ~AdjBit(i, Opposite(d), j)
          /\ AdjBit(j, Opposite(d), i)

\* C2: after learn, bit i of adjacencies[i][d] is set exactly when pattern i
\* matches itself shifted by d; for the model of [[0,0],[0,0]] with N = 2 all four
\* masks adjacencies[0][d] are {0}.
C2_SelfAdjacency ==
    (Learned /\ patternSize >= 1) =>
        /\ \A i \in PatternIndices : \A d \in 0..3 :
              AdjBit(i, d, i) <=>
                  isAdjacent(patterns[i + 1], patterns[i + 1], DIRECTIONS[d + 1])
        /\ (images = <<S1Image>> /\ patternSize = 2) =>
              \A d \in 0..3 : adjacencies[1][d + 1] = {0}

\* C3: with the model of [[0,0],[0,0]], N = 2, every solve with width 5, height 5
\* and maxAttempts 10 ends in success with all 25 cells collapsed to pattern 0.
C3_TrivialGenerate ==
    (/\ images = <<S1Image>>
     /\ patternSize = 2
     /\ width = 5
     /\ height = 5
     /\ maxAttempts = 10
     /\ pc = "done") =>
        /\ result = "true"
        /\ \A cell \in DOMAIN waveMatrix : waveMatrix[cell] = {0}

Solved == pc = "done" /\ result = "true"

\* C4 as stated: in a successful result, for horizontally adjacent cells (y,x),
\* (y,x+1) holding p, q bit q of adjacencies[p][right] is set, and for vertically
\* adjacent cells (y,x), (y+1,x) holding p, q bit q of adjacencies[p][down] is set.
C4_AsStated ==
    Solved =>
        \A cell \in DOMAIN waveMatrix :
            /\ <<cell[1], cell[2] + 1>> \in DOMAIN waveMatrix =>
                  \A p \in waveMatrix[cell] :
                      \A q \in waveMatrix[<<cell[1], cell[2] + 1>>] : AdjBit(p, RIGHT, q)
            /\ <<cell[1] + 1, cell[2]>> \in DOMAIN waveMatrix =>
                  \A p \in waveMatrix[cell] :
                      \A q \in waveMatrix[<<cell[1] + 1, cell[2]>>] : AdjBit(p, DOWN, q)

\* C4 (amended): in a successful result, for horizontally adjacent cells (y,x),
\* (y,x+1) holding p, q bit q of adjacencies[p][left] and bit p of
\* adjacencies[q][right] are set, and for vertically adjacent cells (y,x), (y+1,x)
\* holding p, q bit q of adjacencies[p][up] and bit p of adjacencies[q][down] are set.
C4_LocalLegality ==
    Solved =>
        \A cell \in DOMAIN waveMatrix :
            /\ <<cell[1], cell[2] + 1>> \in DOMAIN waveMatrix =>
                  \A p \in waveMatrix[cell] :
                      \A q \in waveMatrix[<<cell[1], cell[2] + 1>>] :
                          AdjBit(p, LEFT, q) /\ AdjBit(q, RIGHT, p)
            /\ <<cell[1] + 1, cell[2]>> \in DOMAIN waveMatrix =>
                  \A p \in waveMatrix[cell] :
                      \A q \in waveMatrix[<<cell[1] + 1, cell[2]>>] :
                          AdjBit(p, UP, q) /\ AdjBit(q, DOWN, p)

\* A successful result on a grid at least 2 x 2 whose model is not symmetric
\* between left and right.
C4_Witness ==
    /\ Solved
    /\ width >= 2
    /\ height >= 2
    /\ \E p \in waveMatrix[<<0, 0>>] : \E q \in waveMatrix[<<0, 1>>] :
          AdjBit(p, LEFT, q) /\ ~AdjBit(p, RIGHT, q)

\* C5: after learn, weights[i] is the number of N x N windows (all images, every
\* anchor, no wrap) elementwise equal to patterns[i], and the weights sum to the
\* number of windows scanned.
C5_WeightsCountWindows ==
    Learned =>
        /\ Len(weights) = NumPatterns
        /\ \A i \in 1..NumPatterns :
              weights[i] = Cardinality(Occurrences(images, patternSize, patterns[i]))
        /\ SumTo(weights, Len(weights)) = TotalWindows(images, patternSize, Len(images))

\* A model learned from two images in which some pattern occurred more than once.
C5_Witness ==
    /\ Learned
    /\ Len(images) = 2
    /\ NumPatterns >= 2
    /\ \E i \in 1..NumPatterns : weights[i] >= 2

\* C6: after learn, no two entries of the pattern table are equal, every entry
\* occurs in the images, and the entries are in the order of their first
\* occurrence in the scan.
C6_UniqueInScanOrder ==
    Learned =>
        /\ \A i \in 1..NumPatterns :
              Occurrences(images, patternSize, patterns[i]) # {}
        /\ \A i \in 1..NumPatterns : \A j \in 1..NumPatterns :
              i < j =>
                  /\ patterns[i] # patterns[j]
                  /\ \E a \in Occurrences(images, patternSize, patterns[i]) :
                        \A b \in Occurrences(images, patternSize, patterns[j]) :
                            ScannedBefore(a, b)

\* A model of two images with at least three patterns, one of them first seen in
\* the second image, and a repeated window.
C6_Witness ==
    /\ Learned
    /\ Len(images) = 2
    /\ NumPatterns >= 3
    /\ \E i \in 1..NumPatterns :
          \A o \in Occurrences(images, patternSize, patterns[i]) : o[1] = 2
    /\ \E i \in 1..NumPatterns : weights[i] >= 2

\* C7 as stated: the stripe image with N = 2 gives the patterns [[0,1],[0,1]],
\* [[1,0],[1,0]] with weights [3,2].
C7_AsStated ==
    (Learned /\ images = <<S2Image>> /\ patternSize = 2) =>
        /\ patterns = << << <<0, 1>>, <<0, 1>> >>, << <<1, 0>>, <<1, 0>> >> >>
        /\ weights = <<3, 2>>

\* C7 (amended): the stripe image with N = 2 gives exactly the patterns
\* [[0,1],[0,1]] at index 0 and [[1,0],[1,0]] at index 1, with weights [4,2].
C7_StripeModel ==
    (Learned /\ images = <<S2Image>> /\ patternSize = 2) =>
        /\ patterns = << << <<0, 1>>, <<0, 1>> >>, << <<1, 0>>, <<1, 0>> >> >>
        /\ weights = <<4, 2>>

C7_Witness == Learned /\ images = <<S2Image>> /\ patternSize = 2

\* Some image has fewer than N rows or fewer than N columns, or N < 1.
BadLearnInput ==
    \/ patternSize < 1
    \/ \E m \in 1..Len(images) :
          Len(images[m]) < patternSize \/ Len(images[m][1]) < patternSize

\* C8: learn fails (returns no model) whenever some image is smaller than N in
\* either dimension or N < 1.
C8_InvalidInput == BadLearnInput => ~Learned

\* The preset instructions that name a cell of the grid.
PresetsInGrid ==
    {n \in 1..Len(setTiles) : <<setTiles[n][2], setTiles[n][1]>> \in DOMAIN waveMatrix}

\* C9: before the first observation of every attempt each preset cell holds its
\* preset mask, and a successful result has each preset cell collapsed to a
\* pattern of its mask.
C9_PresetsHonoured ==
    ((pc = "loop" /\ numObserved = 0 /\ numAttempts <= maxAttempts) \/ Solved) =>
        \A n \in PresetsInGrid :
            waveMatrix[<<setTiles[n][2], setTiles[n][1]>>] \subseteq setTiles[n][3]

\* The wave with the presets applied to the initialized wave.
PresetWave ==
    [cell \in (0..(height - 1)) \X (0..(width - 1)) |->
        IF \E n \in 1..Len(setTiles) : <<setTiles[n][2], setTiles[n][1]>> = cell
        THEN (0..(NumPatterns - 1)) \cap
                setTiles[CHOOSE n \in 1..Len(setTiles) :
                            <<setTiles[n][2], setTiles[n][1]>> = cell][3]
        ELSE 0..(NumPatterns - 1)]

\* Propagating from every preset cell empties some cell.
PresetsContradict ==
    /\ Learned
    /\ NumPatterns >= 1
    /\ Len(setTiles) > 0
    /\ \A n \in 1..Len(setTiles) :
          <<setTiles[n][2], setTiles[n][1]>> \in DOMAIN PresetWave
    /\ \/ \E cell \in DOMAIN PresetWave : PresetWave[cell] = {}
       \/ PropagateQueue(PresetWave,
                         [n \in 1..Len(setTiles) |-> <<setTiles[n][2], setTiles[n][1]>>],
                         adjacencies).contradictionCreated

\* C10: when the presets alone propagate to a contradiction, solve fails with
\* Unsatisfiable at once: no observation is performed and no retry is consumed.
C10_PresetUnsatisfiable ==
    (PresetsContradict /\ pc \notin {"learn", "solve"}) =>
        /\ numObserved = 0
        /\ numAttempts <= 1
        /\ pc = "done" => result = "Unsatisfiable"

\* C11: solve returns false exactly when maxAttempts attempts have each ended in
\* a propagation contradiction: false is returned only with numAttempts =
\* maxAttempts + 1, numAttempts grows only by one and only when propagate
\* reports a contradiction, no attempt is in progress beyond the cap, and once
\* the cap is exceeded the only outcome is false.
C11_FalseAfterMaxAttempts ==
    /\ []((pc = "done" /\ result = "false") => numAttempts = maxAttempts + 1)
    /\ [](pc \in {"propagate", "select"} => numAttempts <= maxAttempts)
    /\ [][(pc # "solve" /\ numAttempts' # numAttempts) =>
              /\ pc = "propagate"
              /\ propagate(waveMatrix, yPos, xPos, adjacencies).contradictionCreated
              /\ numAttempts' = numAttempts + 1]_vars
    /\ [][(pc = "loop" /\ numAttempts > maxAttempts) => result' = "false"]_vars

\* With maxAttempts = 1 and a model of several patterns, one contradiction has
\* ended the only attempt and solve returned false.
C11_Witness ==
    /\ pc = "done"
    /\ result = "false"
    /\ maxAttempts = 1
    /\ numAttempts = 2
    /\ NumPatterns >= 2

\* C12: whenever solve returns success every cell of the wave matrix has exactly
\* one possible pattern.
C12_SuccessFullyCollapsed ==
    Solved => \A cell \in DOMAIN waveMatrix : Cardinality(waveMatrix[cell]) = 1

\* A success on a grid of at least four cells that was reached through a
\* least-entropy selection and holds two different patterns.
C12_Witness ==
    /\ Solved
    /\ width * height >= 4
    /\ numObserved >= 2
    /\ \E c1 \in DOMAIN waveMatrix : \E c2 \in DOMAIN waveMatrix :
          waveMatrix[c1] # waveMatrix[c2]

\* C13: within one attempt (no wave initialization in the step) every step of
\* observe and propagate leaves each cell's set of possible patterns a subset of
\* what it was before the step.
C13_BitsOnlyCleared ==
    [][(pc \in {"loop", "propagate", "select"} /\ numAttempts' = numAttempts) =>
          /\ DOMAIN waveMatrix' = DOMAIN waveMatrix
          /\ \A cell \in DOMAIN waveMatrix :
                waveMatrix'[cell] \subseteq waveMatrix[cell]]_vars

\* After the second observation of an attempt and its propagation, some cell is
\* narrowed but not collapsed.
C13_Witness ==
    /\ pc = "select"
    /\ numObserved >= 2
    /\ \E cell \in DOMAIN waveMatrix :
          /\ Cardinality(waveMatrix[cell]) >= 2
          /\ waveMatrix[cell] # PatternIndices

\* C14: propagation is confluent: from the wave and start cell of a propagate
\* call, whatever order the queued cells and the directions are processed in, the
\* verdict is the one propagate() itself reports for that wave, and without a
\* contradiction the final mask of every cell is the one propagate() leaves.
C14_PropagationConfluent ==
    /\ pc = "contradiction" =>
          propagate(startWave, yPos, xPos, adjacencies).contradictionCreated
    /\ (pc = "propagating" /\ cellQueue = << >>) =>
          LET r == propagate(startWave, yPos, xPos, adjacencies)
          IN  /\ ~r.contradictionCreated
              /\ r.wave = waveMatrix

\* A propagate call, not the first of its attempt, with two cells queued at
\* once and a cell narrowed but not collapsed.
C14_Witness ==
    /\ pc = "propagating"
    /\ numObserved >= 2
    /\ Len(cellQueue) >= 2
    /\ \E cell \in DOMAIN waveMatrix :
          /\ Cardinality(waveMatrix[cell]) >= 2
          /\ waveMatrix[cell] # startWave[cell]

\* C15: in every execution with at least one pattern and positive width and
\* height, the Contradiction error of getShannonEntropy never ends solve, the
\* cell observe is about to be called on is not empty, and no cell is empty when
\* the least-entropy scan reads the wave.
C15_ContradictionNeverEscapes ==
    (Learned /\ NumPatterns >= 1 /\ width >= 1 /\ height >= 1) =>
        /\ result # "Error: Contradiction found."
        /\ (pc = "loop" /\ numAttempts <= maxAttempts) =>
              waveMatrix[<<yPos, xPos>>] # {}
        /\ pc = "select" => \A cell \in DOMAIN waveMatrix : waveMatrix[cell] # {}

\* The least-entropy scan is about to read a wave with unsolved cells in an
\* attempt that follows a propagation contradiction.
C15_Witness ==
    /\ pc = "select"
    /\ numAttempts >= 2
    /\ NumPatterns >= 2
    /\ \E cell \in DOMAIN waveMatrix : Cardinality(waveMatrix[cell]) >= 2

\* The arguments of solve that the specification calls invalid.
BadSolveInput == maxAttempts < 1 \/ width < 1 \/ height < 1 \/ NumPatterns = 0

\* C16: solve called with maxAttempts < 1, width < 1, height < 1 or zero patterns
\* ends in an InvalidInput error, not in a result and not in another error.
C16_InvalidSolveInput ==
    (pc = "done" /\ BadSolveInput) => result = "InvalidInput"

\* C17: no step of solve changes the patterns, the weights or any adjacency
\* bitmask, and no cell of the wave matrix is ever an object of the adjacencies
\* table.
C17_LearnedArtifactsUntouched ==
    /\ [][pc # "learn" => UNCHANGED learnVars]_vars
    /\ [](\A cell \in DOMAIN waveObjects : waveObjects[cell] # "adjacencies")

\* A successful solve of a model of several patterns, after a restart and with
\* at least two observations and propagations in the last attempt.
C17_Witness ==
    /\ Solved
    /\ numAttempts >= 2
    /\ numObserved >= 2
    /\ NumPatterns >= 2

\* The state of solve(): where it stands, what it returned, the wave matrix,
\* numAttempts, y and x.
SolveState(at, res, wave, n, y, x) ==
    [pc |-> at, result |-> res, waveMatrix |-> wave, numAttempts |-> n,
     yPos |-> y, xPos |-> x]

\* The state solve() is in, from the top of its while loop on, once it has
\* used up the random values `draws`: it ended, or it waits for the next value.
RECURSIVE SolveOnDraws(_, _, _, _, _)
SolveOnDraws(wave, n, y, x, draws) ==
    IF ~(n <= maxAttempts) THEN SolveState("done", "false", wave, n, y, x)
    ELSE IF <<y, x>> \notin DOMAIN wave
    THEN SolveState("done", "TypeError", wave, n, y, x)
    ELSE IF draws = << >> THEN SolveState("loop", "none", wave, n, y, x)
    ELSE LET after == observe(wave, y, x, weights, Head(draws))
         IN  IF after.thrown
             THEN SolveState("done", "Error: pattern not chosen", wave, n, y, x)
             ELSE LET r == propagate(after.wave, y, x, adjacencies)
                      scan == leastEntropyCells(r.wave, width, height, weights)
                  IN  IF r.contradictionCreated
                      THEN IF Len(draws) < 3
                           THEN SolveState("propagate", "none", after.wave, n, y, x)
                           ELSE SolveOnDraws(
                                    initializeWaveMatrix(Len(patterns), width, height),
                                    n + 1, draws[2], draws[3],
                                    SubSeq(draws, 4, Len(draws)))
                      ELSE IF scan.thrown
                      THEN SolveState("done", "Error: Contradiction found.", r.wave,
                                      n, y, x)
                      ELSE IF Len(scan.leastEntropyCellPositions) = 0
                      THEN SolveState("done", "true", r.wave, n, -1, -1)
                      ELSE IF Len(draws) < 2
                      THEN SolveState("select", "none", r.wave, n, y, x)
                      ELSE SolveOnDraws(
                               r.wave, n,
                               scan.leastEntropyCellPositions[draws[2]][1],
                               scan.leastEntropyCellPositions[draws[2]][2],
                               SubSeq(draws, 3, Len(draws)))

\* C18: the learned model, width, height, maxAttempts and the sequence of random
\* values (seed cell draws, weighted pattern draws, tie-break draws) determine
\* the run: whenever solve has ended or stands at the top of its loop, its
\* result, wave matrix, attempt count and cell are those that the random values
\* used so far give, whatever else (the presets) the call was given.
C18_RandomValuesDetermineRun ==
    (/\ randomLog.kept
     /\ Len(randomLog.values) >= 2
     /\ \/ pc = "done"
        \/ pc = "loop" /\ numAttempts <= maxAttempts /\ <<yPos, xPos>> \in DOMAIN waveMatrix) =>
        SolveOnDraws(initializeWaveMatrix(Len(patterns), width, height), 1,
                     randomLog.values[1], randomLog.values[2],
                     SubSeq(randomLog.values, 3, Len(randomLog.values)))
            = SolveState(pc, result, waveMatrix, numAttempts, yPos, xPos)

\* A logged run that ended in success after a restart and a tie-break draw.
C18_Witness ==
    /\ randomLog.kept
    /\ Solved
    /\ numAttempts >= 2
    /\ numObserved >= 2
    /\ Len(randomLog.values) >= 8

\* Pattern pj, placed at offset dir from pattern pi, agrees with pi wherever the
\* two overlap: the tile (y, x) of pj lies on the tile (y + dy, x + dx) of pi.
MatchesAtOffset(pi, pj, dir) ==
    \A y \in 0..(patternSize - 1) : \A x \in 0..(patternSize - 1) :
        (/\ y + dir[1] \in 0..(patternSize - 1)
         /\ x + dir[2] \in 0..(patternSize - 1)) =>
            pi[y + dir[1] + 1][x + dir[2] + 1] = pj[y + 1][x + 1]

\* C19: after learn, for all patterns i, j and directions d, bit j of
\* adjacencies[i][d] is set iff j matches i when j is offset by d from i (for
\* d = up: the top N-1 rows of i equal the bottom N-1 rows of j).
C19_AdjacencyByOverlap ==
    (Learned /\ ~BadLearnInput) =>
        \A i \in PatternIndices : \A j \in PatternIndices : \A d \in 0..3 :
            AdjBit(i, d, j) <=>
                MatchesAtOffset(patterns[i + 1], patterns[j + 1], DIRECTIONS[d + 1])

\* C20: for N = 1, after learn, two patterns are adjacent in a direction iff
\* their single tiles are equal: distinct patterns never, each pattern with
\* itself in all four directions.
C20_SingleTileAdjacency ==
    (Learned /\ patternSize = 1) =>
        \A i \in PatternIndices : \A j \in PatternIndices : \A d \in 0..3 :
            AdjBit(i, d, j) <=> patterns[i + 1][1][1] = patterns[j + 1][1][1]

\* The cells with at least two possible patterns.
UnsolvedCells == {cell \in DOMAIN waveMatrix : Cardinality(waveMatrix[cell]) >= 2}

\* The unsolved cells whose entropy is the least among the unsolved cells.
LeastEntropyUnsolvedCells ==
    {cell \in UnsolvedCells :
        \A other \in UnsolvedCells :
            getShannonEntropy(waveMatrix[cell], weights)
                <= getShannonEntropy(waveMatrix[other], weights)}

\* C21: getLeastEntropyUnsolvedCellPosition returns [-1,-1] iff every cell is
\* collapsed; otherwise it returns an unsolved cell of least entropy among the
\* unsolved cells, and each of the tied cells can be the one returned.
C21_LeastEntropySelection ==
    /\ [](pc = "select" =>
            LET scan == leastEntropyCells(waveMatrix, width, height, weights)
            IN  {scan.leastEntropyCellPositions[n] :
                    n \in 1..Len(scan.leastEntropyCellPositions)}
                    = LeastEntropyUnsolvedCells)
    /\ [][pc = "select" =>
              IF UnsolvedCells = {}
              THEN <<yPos', xPos'>> = <<-1, -1>> /\ result' = "true"
              ELSE <<yPos', xPos'>> \in LeastEntropyUnsolvedCells /\ result' = "none"]_vars

\* The scan is about to read a wave with a collapsed cell and unsolved cells of
\* different entropies.
C21_Witness ==
    /\ pc = "select"
    /\ \E cell \in DOMAIN waveMatrix : Cardinality(waveMatrix[cell]) = 1
    /\ UnsolvedCells # LeastEntropyUnsolvedCells
    /\ Cardinality(LeastEntropyUnsolvedCells) >= 2

\* The sum of the weights of the patterns of S with index at most p.
RECURSIVE CumulativeWeight(_, _)
CumulativeWeight(S, p) ==
    IF p < 0 THEN 0
    ELSE (IF p \in S THEN weights[p + 1] ELSE 0) + CumulativeWeight(S, p - 1)

\* The patterns of S whose cumulative weight is >= the value the draw stands for.
ReachedBy(S, draw) == {p \in S : DrawsPerUnit * CumulativeWeight(S, p) >= draw}

\* The random value the step has logged.
DrawnInStep == randomLog'.values[Len(randomLog'.values)]

\* C22: observe on a cell with nonempty possible set S leaves the cell with
\* exactly one pattern, the first of S in ascending order whose cumulative
\* weight is >= the draw; it throws no "pattern wasn't chosen" error and changes
\* no other cell.
C22_ObserveChoosesByCumulativeWeight ==
    [][(/\ pc = "loop"
        /\ numAttempts <= maxAttempts
        /\ <<yPos, xPos>> \in DOMAIN waveMatrix
        /\ waveMatrix[<<yPos, xPos>>] # {}) =>
           LET S == waveMatrix[<<yPos, xPos>>]
               reached == ReachedBy(S, DrawnInStep)
           IN  /\ pc' = "propagate"
               /\ result' = "none"
               /\ reached # {}
               /\ \E p \in reached :
                     /\ \A q \in reached : p <= q
                     /\ waveMatrix' = [waveMatrix EXCEPT ![<<yPos, xPos>>] = {p}]]_vars

\* An observation other than the first of its attempt has just collapsed a cell
\* to a pattern other than pattern 0 on a positive draw.
C22_Witness ==
    /\ randomLog.kept
    /\ pc = "propagate"
    /\ numObserved >= 2
    /\ randomLog.values[Len(randomLog.values)] >= 1
    /\ 0 \notin waveMatrix[<<yPos, xPos>>]

\* Rows 1..N-1 of pattern p equal rows 0..N-2 of pattern q.
RowsOverlap(p, q) ==
    \A r \in 1..(patternSize - 1) : \A c \in 0..(patternSize - 1) :
        patterns[p + 1][r + 1][c + 1] = patterns[q + 1][r][c + 1]

\* Columns 1..N-1 of pattern p equal columns 0..N-2 of pattern q.
ColumnsOverlap(p, q) ==
    \A r \in 0..(patternSize - 1) : \A c \in 1..(patternSize - 1) :
        patterns[p + 1][r + 1][c + 1] = patterns[q + 1][r + 1][c]

\* C23: in a successful result, if (y,x) holds p and (y+1,x) holds q then rows
\* 1..N-1 of p equal rows 0..N-2 of q, and if (y,x+1) holds q then columns
\* 1..N-1 of p equal columns 0..N-2 of q.
C23_NeighboursOverlap ==
    Solved =>
        \A cell \in DOMAIN waveMatrix :
            /\ <<cell[1] + 1, cell[2]>> \in DOMAIN waveMatrix =>
                  \A p \in waveMatrix[cell] :
                      \A q \in waveMatrix[<<cell[1] + 1, cell[2]>>] : RowsOverlap(p, q)
            /\ <<cell[1], cell[2] + 1>> \in DOMAIN waveMatrix =>
                  \A p \in waveMatrix[cell] :
                      \A q \in waveMatrix[<<cell[1], cell[2] + 1>>] : ColumnsOverlap(p, q)

\* A successful result on a grid at least 2 x 2 with a pair of horizontal
\* neighbours and a pair of vertical neighbours that overlap in the stated order
\* only, not in the reverse order.
C23_Witness ==
    /\ Solved
    /\ width >= 2
    /\ height >= 2
    /\ \E cell \in DOMAIN waveMatrix :
          /\ <<cell[1], cell[2] + 1>> \in DOMAIN waveMatrix
          /\ \E p \in waveMatrix[cell] : \E q \in waveMatrix[<<cell[1], cell[2] + 1>>] :
                ColumnsOverlap(p, q) /\ ~ColumnsOverlap(q, p)
    /\ \E cell \in DOMAIN waveMatrix :
          /\ <<cell[1] + 1, cell[2]>> \in DOMAIN waveMatrix
          /\ \E p \in waveMatrix[cell] : \E q \in waveMatrix[<<cell[1] + 1, cell[2]>>] :
                RowsOverlap(p, q) /\ ~RowsOverlap(q, p)

\* How many times a cell is in the queue.
QueueCount(q, cell) == Cardinality({n \in 1..Len(q) : q[n] = cell})

RECURSIVE SumBits(_, _)
\* The number of possible patterns summed over the given cells.
SumBits(wave, cells) ==
    IF cells = {} THEN 0
    ELSE LET cell == CHOOSE c \in cells : TRUE
         IN  Cardinality(wave[cell]) + SumBits(wave, cells \ {cell})

\* A measure of what is left of a propagate call: every iteration dequeues one
\* cell and enqueues at most one cell per direction.
PropagateMeasure(wave, q) ==
    (Len(DIRECTIONS) + 1) * SumBits(wave, DOMAIN wave) + Len(q)

\* The most the measure of a propagate call can be when its loop starts.
PropagateBound == (Len(DIRECTIONS) + 1) * width * height * NumPatterns + 1

\* What is left of one iteration of the while loop of solve().
IterationStage ==
    CASE pc = "propagate" -> PropagateBound + 3
      [] pc = "propagating" -> 2 + PropagateMeasure(waveMatrix, cellQueue)
      [] pc \in {"select", "contradiction"} -> 1
      [] OTHER -> 0

IterationBound == PropagateBound + 4

AttemptBound == (width * height + 1) * IterationBound

\* What is left of a solve call: the attempts left, then the observations left
\* in the attempt, then what is left of the iteration.
SolveRank ==
    CASE pc = "done" -> 0
      [] pc \in {"learn", "solve"} -> (maxAttempts + 2) * AttemptBound
      [] OTHER -> (maxAttempts + 1 - numAttempts) * AttemptBound
                     + (width * height - numObserved) * IterationBound
                     + IterationStage + 1

\* C24: a solve call with at least one pattern, positive width and height and a
\* finite maxAttempts terminates: every step of the call decreases a rank that
\* is never negative, so no call takes infinitely many steps. Inside the loop of
\* propagate a cell is enqueued only when its mask strictly shrank, so every
\* iteration decreases the measure of the call; within an attempt every
\* observation after the first acts on a cell with at least two patterns, and
\* an attempt performs at most width*height observations.
C24_SolveTerminates ==
    /\ [](NumPatterns >= 1 => SolveRank >= 0)
    /\ [][(pc # "learn" /\ NumPatterns >= 1 /\ width >= 1 /\ height >= 1) =>
             SolveRank' < SolveRank]_vars
    /\ [](numObserved <= width * height)
    /\ [](numAttempts <= maxAttempts + 1)
    /\ [][(pc = "loop" /\ pc' = "propagate" /\ numObserved >= 1) =>
             Cardinality(waveMatrix[<<yPos, xPos>>]) >= 2]_vars
    /\ [][(pc = "propagating" /\ pc' = "propagating") =>
             /\ \A cell \in DOMAIN waveMatrix :
                   QueueCount(cellQueue', cell) > QueueCount(cellQueue, cell) =>
                       /\ waveMatrix'[cell] \subseteq waveMatrix[cell]
                       /\ waveMatrix'[cell] # waveMatrix[cell]
             /\ PropagateMeasure(waveMatrix', cellQueue')
                    < PropagateMeasure(waveMatrix, cellQueue)]_vars

\* A call that returned true in an attempt after the first, after at least two
\* observations in that attempt.
C24_Witness ==
    /\ Solved
    /\ numAttempts >= 2
    /\ numObserved >= 2

\* C25: in a successful result on a grid with more than one cell no two
\* orthogonally adjacent cells hold the same pattern index, and a model with a
\* single pattern never yields success on such a grid, whatever maxAttempts is.
C25_NeighboursDiffer ==
    (Learned /\ width * height > 1) =>
        /\ Solved =>
              \A cell \in DOMAIN waveMatrix :
                  \A other \in {<<cell[1] + 1, cell[2]>>, <<cell[1], cell[2] + 1>>} :
                      other \in DOMAIN waveMatrix =>
                          waveMatrix[cell] \cap waveMatrix[other] = {}
        /\ NumPatterns = 1 => ~Solved

\* A successful result on a grid with more than one cell for a model in which
\* some pattern agrees with itself shifted by one row or one column.
C25_Witness ==
    /\ Solved
    /\ width * height > 1
    /\ \E p \in PatternIndices : RowsOverlap(p, p) \/ ColumnsOverlap(p, p)

\* The strokes of a list, as a set.
Strokes(list) == {list[n] : n \in 1..Len(list)}

\* The number of strokes in the two lists.
CombinedCount(dl, rl) == Len(dl) + Len(rl)

\* What C26 says of undo/redo on an empty source list, of the combined count
\* and of a new stroke.
SketchListsConserved ==
    /\ (handler' = "undo" /\ displayList = << >>) =>
          UNCHANGED <<displayList, redoDisplayList>> /\ dispatched' = << >>
    /\ (handler' = "redo" /\ redoDisplayList = << >>) =>
          UNCHANGED <<displayList, redoDisplayList>> /\ dispatched' = << >>
    /\ handler' \in {"undo", "redo"} =>
          /\ Strokes(displayList') \cup Strokes(redoDisplayList')
                = Strokes(displayList) \cup Strokes(redoDisplayList)
          /\ Strokes(displayList') \cap Strokes(redoDisplayList') = {}
    /\ CombinedCount(displayList', redoDisplayList')
            # CombinedCount(displayList, redoDisplayList) =>
          \/ /\ handler' = "mousedown"
             /\ CombinedCount(displayList', redoDisplayList')
                    = CombinedCount(displayList, redoDisplayList) + 1
          \/ /\ handler' = "clear"
             /\ CombinedCount(displayList', redoDisplayList') = 0
    /\ handler' = "mousedown" =>
          /\ CombinedCount(displayList', redoDisplayList')
                 = CombinedCount(displayList, redoDisplayList) + 1
          /\ redoDisplayList' = redoDisplayList
    /\ handler' = "clear" => CombinedCount(displayList', redoDisplayList') = 0

\* C26 as stated: over any sequence of stroke, undo, redo and clear events, an
\* undo immediately followed by a redo leaves displayList as it was before the
\* undo; undo/redo on an empty source list change nothing and dispatch no event;
\* the combined count of the two lists changes only by +1 on a new stroke and to
\* 0 on clear; a new stroke does not empty redoDisplayList.
C26_AsStated ==
    [][/\ handler' = "undo" =>
             redoButtonOnclick(displayList', redoDisplayList').displayList = displayList
       /\ SketchListsConserved]_vars

\* C26 (amended): an undo that finds displayList non-empty, immediately followed
\* by a redo, leaves displayList as it was before the undo, while an undo on an
\* empty displayList followed by a redo moves the last undone stroke, if there is
\* one, back to displayList; the other parts as stated.
C26_UndoThenRedo ==
    [][/\ handler' = "undo" =>
             LET redone == redoButtonOnclick(displayList', redoDisplayList').displayList
             IN  IF displayList # << >> \/ redoDisplayList = << >>
                 THEN redone = displayList
                 ELSE redone = <<redoDisplayList[Len(redoDisplayList)]>>
       /\ SketchListsConserved]_vars

\* An undo has just moved a stroke to a redoDisplayList that already held one,
\* with a stroke left in displayList.
C26_Witness ==
    /\ handler = "undo"
    /\ dispatched # << >>
    /\ Len(redoDisplayList) >= 2
    /\ displayList # << >>

====
